---- MODULE Spec2Model ----
(***************************************************************************)
(* Data-acquisition layer and simulation engine of the stock valuation     *)
(* tool:                                                                   *)
(*   - HealthStatus / BaseFetcher / retry  (data/fetchers/base_fetcher.py) *)
(*   - DataService failover coordinator   (data/fetchers/data_service.py)  *)
(*   - the three adapters DataService names (yahoo, alpha_vantage, fmp)    *)
(*   - MonteCarloValuator                  (data/models/monte_carlo.py)    *)
(* Times are in seconds, except the backoff waits, which are in            *)
(* milliseconds (backoff_factor = 0.5 s is 500 ms).                        *)
(***************************************************************************)
EXTENDS Integers, Sequences, FiniteSets, TLC

\* ---------------------------------------------------------------- bounds
\* cap on the attempts recorded in the health table (guards FetchCall)
MaxCount == 7
\* the wall clock stops advancing here
MaxTime == 300
\* largest counter value enumerated for the is_healthy table
MaxProbe == 10
\* concurrent calls start while the health table records at most
\* MaxShared - 8 attempts (two calls add at most 8)
MaxShared == 8
\* largest configured simulation count (monte_carlo_sims)
MaxSims == 3

\* ------------------------------------------------------ program constants
max_retries == 3
backoff_factor_ms == 500
ttl == 300

Sources == {"yahoo", "alpha_vantage", "fmp"}
DefaultPriority == <<"yahoo", "alpha_vantage", "fmp">>

Symbols == {<<"AAPL", "US">>, <<"7203", "JP">>}

\* ------------------------------------------------------------ exceptions
Classes == {"BaseException", "Exception", "DataFetchError", "RetryExhaustedError",
            "ValidationError", "TypeError", "ValueError", "KeyError", "NetworkError",
            "CancelledError", "NoException"}

\* the hierarchy with asyncio.CancelledError deriving from Exception, as it
\* did before Python 3.8
ParentCancelledIsException(c) ==
    CASE c = "RetryExhaustedError" -> "DataFetchError"
      [] c = "CancelledError" -> "Exception"
      [] c = "Exception" -> "BaseException"
      [] c = "BaseException" -> "BaseException"
      [] OTHER -> "Exception"

\* the class each exception class derives from; asyncio.CancelledError derives
\* from BaseException (the walrus operator in fetch_market_data needs
\* Python 3.8, where that is the case)
Parent(c) ==
    CASE c = "RetryExhaustedError" -> "DataFetchError"
      [] c = "DataFetchError" -> "Exception"
      [] c = "ValidationError" -> "Exception"
      [] c = "TypeError" -> "Exception"
      [] c = "ValueError" -> "Exception"
      [] c = "KeyError" -> "Exception"
      [] c = "NetworkError" -> "Exception"
      [] c = "CancelledError" -> "BaseException"
      [] c = "Exception" -> "BaseException"
      [] OTHER -> "BaseException"

RECURSIVE IsInstance(_, _)
\* `except h` matches an exception of class c
IsInstance(c, h) ==
    IF c = "NoException" THEN FALSE
    ELSE IF c = h THEN TRUE
    ELSE IF c = "BaseException" THEN FALSE
    ELSE IsInstance(Parent(c), h)

\* ---------------------------------------------------------- HealthStatus
HealthStatus == [success_count |-> 0, error_count |-> 0]

\* the comparison with >= in place of >
RatioAtLeast(s, e) == 10 * s >= 8 * (s + e)

\* success_count / (success_count + error_count) > 0.8, the quotient and the
\* literal 0.8 = 8/10 compared exactly (for counters of this size the double
\* quotient rounds to the double 0.8 exactly when the ratio is 4/5)
RatioAbove(s, e) == 10 * s > 8 * (s + e)

is_healthy(h) ==
    IF h.error_count = 0 THEN TRUE
    ELSE RatioAbove(h.success_count, h.error_count)

\* the two counters exchanged
record_swapped(hs, success) ==
    IF success
    THEN [hs EXCEPT !.error_count = @ + 1]
    ELSE [hs EXCEPT !.success_count = @ + 1]

\* _update_health: the counters of one source after an attempt
record(hs, success) ==
    IF success
    THEN [hs EXCEPT !.success_count = @ + 1]
    ELSE [hs EXCEPT !.error_count = @ + 1]

\* the attempts recorded in the table, all sources together
Recorded(h) ==
    h["yahoo"].success_count + h["yahoo"].error_count
    + h["alpha_vantage"].success_count + h["alpha_vantage"].error_count
    + h["fmp"].success_count + h["fmp"].error_count

\* ------------------------------------------------------------- raw data
NoPrice == [t |-> "missing", v |-> 0]
\* what the 'price' entry of a raw dict can be
RawPrices == {NoPrice, [t |-> "none", v |-> 0], [t |-> "str", v |-> 0],
              [t |-> "num", v |-> 0], [t |-> "num", v |-> 100]}

\* outcomes of the abstract hook _fetch_raw_market_data
RawOutcomes ==
    [out : {"raise"}, exc : {"NetworkError", "TypeError"}, isdict : {FALSE}, price : {NoPrice}]
    \cup [out : {"return"}, exc : {"NoException"}, isdict : {FALSE}, price : {NoPrice}]
    \cup [out : {"return"}, exc : {"NoException"}, isdict : {TRUE}, price : RawPrices]

\* _validate_market_data: the exception it raises, "NoException" when it returns
validate_market_data(raw) ==
    IF ~raw.isdict THEN "ValidationError"
    ELSE IF raw.price.t # "num" THEN "ValidationError"
    ELSE "NoException"

\* the fields of a MarketData record
MarketFields == {"source", "price", "volume", "pe_ratio", "currency", "timestamp"}

\* Python's None as a fetch result
NoData == [kind |-> "None", keys |-> {}, source |-> "", price |-> NoPrice, timestamp |-> 0]

\* _normalize_market_data
normalize_market_data(src, raw, t) ==
    [kind |-> "dict", keys |-> MarketFields, source |-> src,
     price |-> [t |-> "num", v |-> raw.price.v], timestamp |-> t]

\* ---------------------------------------------------------------- cache
NoEntry == [data |-> NoData, expire |-> 0]

cache_key(sym) == <<"market", sym[1], sym[2]>>
CacheKeys == {cache_key(sym) : sym \in Symbols}

\* an entry still served at its expiry instant
fresh_inclusive(t, expire) == t <= expire

\* _get_cache: datetime.now() < entry['expire']
fresh(t, expire) == t < expire

\* _get_cache: the data of a stored entry that has not expired, else None
get_cache(c, key, t) ==
    IF c[key] # NoEntry /\ fresh(t, c[key].expire) THEN c[key].data ELSE NoData

\* _set_cache
set_cache(c, key, data, t) ==
    [c EXCEPT ![key] = [data |-> data, expire |-> t + ttl]]

\* the cache written before the record is validated
cache_written_first(c, key, exc, data, t) == set_cache(c, key, data, t)

\* fetch_market_data's try block: _set_cache is its last statement, reached
\* only when nothing before it raised exc
cache_after_attempt(c, key, exc, data, t) ==
    IF exc = "NoException" THEN set_cache(c, key, data, t) ELSE c

\* ----------------------------------------------------------------- state
VARIABLES
    priority,      \* settings.data_sources.priority
    api_key,       \* whether alpha_vantage / fmp have a non-empty api_key
    health,        \* BaseFetcher._health_status
    now,           \* the wall clock
    source_name,   \* the inheriting fetcher's source_name
    cache,         \* the inheriting fetcher's _cache
    bpc,           \* position of the fetch_market_data call
    bsym,          \* its (symbol, country)
    retries,       \* the retry wrapper's counter
    attempts,      \* invocations of the wrapped function in this call
    adapter_calls, \* invocations of _fetch_raw_market_data in this call
    waits,         \* the backoff waits of this call, in ms
    last_cause,    \* class of the exception the last failed attempt's body raised
    last_exc,      \* class of the exception the last failed attempt raised
    bresult,       \* what the call returned
    braised,       \* class of the exception the call raised
    cancel_sent,   \* the caller has cancelled the task running this call
    cpc,           \* position of the get_market_data / get_financials call
    ckind,         \* "market" or "financials"
    csym,          \* its (symbol, country)
    idx,           \* position of the for loop in priority
    errors,        \* the errors list
    contacted,     \* the fetches this call invoked, in order
    cresult,       \* what the call returned
    returned_at,   \* when the call returned
    prev_ok,       \* the call before this one, when it was a get_market_data that returned
    probe,         \* a HealthStatus whose is_healthy is evaluated
    probed,        \* the value is_healthy gave for probe
    pdone,         \* is_healthy has been evaluated on probe
    tpc,           \* per task: position of its fetch_market_data call
    tsym,          \* per task: its (symbol, country)
    tretries,      \* per task: the retry wrapper's counter
    tseen,         \* per task: the counters as they stood when it suspended
    tresult,       \* per task: what its call returned
    tcalls,        \* per task: adapter calls of its call
    ok_attempts,   \* adapter calls, all tasks together, that ended in a success
    failed_attempts, \* adapter calls, all tasks together, that ended in a failure
    market_data,   \* MonteCarloValuator.market_data
    financials,    \* MonteCarloValuator.financials
    n_sims,        \* settings.model.monte_carlo_sims
    mpc,           \* position of run_simulation
    simulations,   \* the values stored so far, in tenths of a currency unit
    pe_lookup,     \* what _get_pe did, once it has been called
    merr,          \* class of the exception run_simulation raised
    mresult,       \* what run_simulation returned
    start_price,   \* _predict_next_quarters: current_price, in cents
    drift,         \* _predict_next_quarters: drift, in units of 0.1
    sigma,         \* _predict_next_quarters: sigma, in units of 0.05
    walk,          \* _predict_next_quarters: price, in units of 40^-4 cent
    predictions,   \* _predict_next_quarters: predictions, in cents
    qpc,           \* position of _predict_next_quarters
    free_cash_flow,     \* DCFValuation.free_cash_flow
    high_growth_years,  \* settings.model.dcf_growth_years
    growth_rate,        \* calculate: growth_rate, in units of 1 (100 %)
    discount_rate,      \* calculate: discount_rate, in units of 1
    terminal_growth,    \* calculate: terminal_growth, in units of 1
    high_growth,        \* calculate: the list high_growth, in 64ths
    transition_growth,  \* calculate: transition_growth, in quarters
    run_fcf,            \* calculate: fcf, in 64ths
    terminal_value,     \* calculate: terminal_value, a fraction of 64ths
    present_value,      \* calculate: present_value, a fraction of 64ths
    dpc,                \* position of DCFValuation(...).calculate(...)
    derr,               \* class of the exception it raised
    apc,           \* position of analyze_stock
    country_arg,   \* analyze_stock: country
    notifier,      \* the TelegramNotifier: "none", "open" or "closed"
    data_service,  \* the DataService: "none", "open" or "closed"
    delivered,     \* the message types send_message delivered
    failed_step,   \* the first step of the try block that raised
    raising,       \* class of the exception travelling up, if any
    returned       \* how analyze_stock ended: "report" or "raised"

fvars == <<source_name, cache, bpc, bsym, retries, attempts, adapter_calls,
           waits, last_cause, last_exc, bresult, braised, cancel_sent>>
cvars == <<cpc, ckind, csym, idx, errors, contacted, cresult, returned_at, prev_ok>>
pvars == <<probe, probed, pdone>>
kvars == <<tpc, tsym, tretries, tseen, tresult, tcalls, ok_attempts, failed_attempts>>
mvars == <<market_data, financials, n_sims, mpc, simulations, pe_lookup, merr, mresult>>
callvars == <<bpc, bsym, retries, attempts, adapter_calls, waits, last_cause, last_exc,
              bresult, braised, cancel_sent>>
qvars == <<start_price, drift, sigma, walk, predictions, qpc>>
dvars == <<free_cash_flow, high_growth_years, growth_rate, discount_rate,
           terminal_growth, high_growth, transition_growth, run_fcf,
           terminal_value, present_value, dpc, derr>>
avars == <<apc, country_arg, notifier, data_service, delivered, failed_step,
           raising, returned>>
xvars == <<qvars, dvars, avars>>
oldvars == <<priority, api_key, health, now, fvars, cvars, pvars, kvars, mvars>>
vars == <<oldvars, xvars>>

\* ------------------------------------------------------- initial values
FetchIdle ==
    /\ bpc = "idle"
    /\ bsym = <<"AAPL", "US">>
    /\ retries = 0
    /\ attempts = 0
    /\ adapter_calls = 0
    /\ waits = <<>>
    /\ last_cause = "NoException"
    /\ last_exc = "NoException"
    /\ bresult = NoData
    /\ braised = "NoException"
    /\ cancel_sent = FALSE

NoPrev == [sym |-> <<"", "">>, data |-> NoData, at |-> 0]

CoordIdle ==
    /\ cpc = "idle"
    /\ ckind = "market"
    /\ csym = <<"AAPL", "US">>
    /\ idx = 1
    /\ errors = <<>>
    /\ contacted = <<>>
    /\ cresult = NoData
    /\ returned_at = 0
    /\ prev_ok = NoPrev

ProbeIdle ==
    /\ probe = HealthStatus
    /\ probed = FALSE
    /\ pdone = FALSE

\* the tasks that may call one fetcher concurrently
Tasks == {1, 2}

TasksIdle ==
    /\ tpc = [t \in Tasks |-> "idle"]
    /\ tsym = [t \in Tasks |-> <<"AAPL", "US">>]
    /\ tretries = [t \in Tasks |-> 0]
    /\ tseen = [t \in Tasks |-> HealthStatus]
    /\ tresult = [t \in Tasks |-> NoData]
    /\ tcalls = [t \in Tasks |-> 0]
    /\ ok_attempts = 0
    /\ failed_attempts = 0

\* a typed value of a dict entry: the key is missing, holds None, or a number
Missing == [t |-> "missing", v |-> 0]
None == [t |-> "none", v |-> 0]
Num(n) == [t |-> "num", v |-> n]

NoLookup == [called |-> FALSE, exc |-> "NoException", v |-> 0]
NoResult ==
    [kind |-> "None", low |-> 0, medium |-> 0, high |-> 0,
     undervalued |-> 0, overvalued |-> 0, fair_valued |-> 0]

\* no simulation is set up
ValuatorIdle ==
    /\ market_data = [price |-> Num(100), pe_ratio |-> Missing]
    /\ financials = [free_cash_flow |-> Num(1000), eps |-> Num(5)]
    /\ n_sims = 1
    /\ mpc = "idle"
    /\ simulations = <<>>
    /\ pe_lookup = NoLookup
    /\ merr = "NoException"
    /\ mresult = NoResult

\* no forecast is running
ForecastIdle ==
    /\ start_price = 100
    /\ drift = 0
    /\ sigma = 0
    /\ walk = 0
    /\ predictions = <<>>
    /\ qpc = "idle"

\* a fraction num / den
Frac(num, den) == [num |-> num, den |-> den]

\* no valuation is being computed
DcfIdle ==
    /\ free_cash_flow = 0
    /\ high_growth_years = 1
    /\ growth_rate = 0
    /\ discount_rate = 1
    /\ terminal_growth = 0
    /\ high_growth = <<>>
    /\ transition_growth = 0
    /\ run_fcf = 0
    /\ terminal_value = Frac(0, 1)
    /\ present_value = Frac(0, 1)
    /\ dpc = "new"
    /\ derr = "NoException"

\* analyze_stock is not running
MainIdle ==
    /\ apc = "start"
    /\ country_arg = "US"
    /\ notifier = "none"
    /\ data_service = "none"
    /\ delivered = {}
    /\ failed_step = "none"
    /\ raising = "NoException"
    /\ returned = "none"

\* the models outside the fetchers and the valuator are at rest
ModelsIdle == ForecastIdle /\ DcfIdle /\ MainIdle

\* BaseFetcher.__init__ for each fetcher DataService builds, in a fresh process
FreshTables ==
    /\ health = [s \in Sources |-> HealthStatus]
    /\ cache = [k \in CacheKeys |-> NoEntry]
    /\ now = 0

\* ------------------------------------------------------------ the clock
TickSteps == {ttl - 1, ttl}

Tick(d) ==
    /\ now + d <= MaxTime
    /\ now' = now + d
    /\ UNCHANGED <<priority, api_key, xvars, health, fvars, cvars, pvars, kvars, mvars>>

\* ------------------------------------------------ retry and its wrapped function
\* _update_health on the table
update_health(h, src, success) == [h EXCEPT ![src] = record(@, success)]

\* fetch_market_data's `except Exception as e: raise DataFetchError from e`:
\* the class the wrapped function raises when its body raised exc
wrap_exception(exc) ==
    IF IsInstance(exc, "Exception") THEN "DataFetchError" ELSE exc

\* the exhaustion test one retry late
retries_exhausted_late(r) == r > max_retries

\* retry.wrapper: `if retries == max_retries`
retries_exhausted(r) == r = max_retries

\* retry.wrapper: wait_time = backoff_factor * (2 ** retries)
wait_time(r) == backoff_factor_ms * (2 ^ r)

\* the wrapper re-raising the plain failure
exhausted_class_plain == "DataFetchError"

\* the class retry.wrapper raises once the retries are exhausted
exhausted_class == "RetryExhaustedError"

\* the wrapper staying in its loop after a success
after_success_loops == "attempt"

\* retry.wrapper: `return await func(...)` leaves the loop
after_success == "returned"

\* ----------------------------------------- BaseFetcher.fetch_market_data
\* the call is not in progress
FetchAtRest == bpc \in {"idle", "returned", "raised", "cancelled"}
CoordAtRest == cpc \in {"idle", "returned", "failed"}

\* BaseFetcher.__init__: a fetcher that inherits fetch_market_data is built for
\* source s; setdefault keeps the counters the table already holds
Construct(s) ==
    /\ FetchAtRest /\ CoordAtRest
    /\ source_name' = s
    /\ cache' = [k \in CacheKeys |-> NoEntry]
    /\ bpc' = "idle"
    /\ bsym' = <<"AAPL", "US">>
    /\ retries' = 0 /\ attempts' = 0 /\ adapter_calls' = 0
    /\ waits' = <<>> /\ last_cause' = "NoException"
    /\ last_exc' = "NoException" /\ bresult' = NoData /\ braised' = "NoException"
    /\ cancel_sent' = FALSE
    /\ UNCHANGED <<priority, api_key, xvars, health, now, cvars, pvars, kvars, mvars>>

\* retry.wrapper entered: retries = 0
FetchCall(sym) ==
    /\ FetchAtRest /\ CoordAtRest
    /\ Recorded(health) + max_retries + 1 <= MaxCount
    /\ bpc' = "attempt"
    /\ bsym' = sym
    /\ retries' = 0 /\ attempts' = 0 /\ adapter_calls' = 0
    /\ waits' = <<>> /\ last_cause' = "NoException"
    /\ last_exc' = "NoException" /\ bresult' = NoData /\ braised' = "NoException"
    /\ cancel_sent' = FALSE
    /\ UNCHANGED <<priority, api_key, xvars, health, now, source_name, cache, cvars, pvars, kvars, mvars>>

\* the wrapped function returns the cached record
CacheHit ==
    /\ bpc = "attempt"
    /\ get_cache(cache, cache_key(bsym), now) # NoData
    /\ attempts' = attempts + 1
    /\ bresult' = get_cache(cache, cache_key(bsym), now)
    /\ bpc' = after_success
    /\ UNCHANGED <<priority, api_key, xvars, health, now, source_name, cache, bsym, retries,
                   adapter_calls, waits, last_cause, last_exc, braised, cancel_sent,
                   cvars, pvars, kvars, mvars>>

\* cache miss: await self._fetch_raw_market_data(symbol, country)
AdapterCall ==
    /\ bpc = "attempt"
    /\ get_cache(cache, cache_key(bsym), now) = NoData
    /\ attempts' = attempts + 1
    /\ adapter_calls' = adapter_calls + 1
    /\ bpc' = "awaiting"
    /\ UNCHANGED <<priority, api_key, xvars, health, now, source_name, cache, bsym, retries,
                   waits, last_cause, last_exc, bresult, braised, cancel_sent,
                   cvars, pvars, kvars, mvars>>

\* the awaited adapter call ends: exc is what the try block raised
\* ("NoException" when it reached its return), normalized the record it built.
\* The rest of the wrapped function and the wrapper's handler run up to the
\* next await.
AttemptEnds(exc, normalized) ==
    LET thrown == wrap_exception(exc)
    IN /\ cache' = cache_after_attempt(cache, cache_key(bsym), exc, normalized, now)
       /\ IF exc = "NoException"
          THEN /\ health' = update_health(health, source_name, TRUE)
               /\ bresult' = normalized
               /\ bpc' = after_success
               /\ UNCHANGED <<waits, last_cause, last_exc, braised>>
          ELSE IF IsInstance(exc, "Exception")
          THEN /\ health' = update_health(health, source_name, FALSE)
               /\ last_cause' = exc
               /\ last_exc' = thrown
               /\ UNCHANGED bresult
               /\ IF ~IsInstance(thrown, "DataFetchError")
                  THEN /\ braised' = thrown
                       /\ bpc' = "raised"
                       /\ UNCHANGED waits
                  ELSE IF retries_exhausted(retries)
                  THEN /\ braised' = exhausted_class
                       /\ bpc' = "raised"
                       /\ UNCHANGED waits
                  ELSE /\ waits' = Append(waits, wait_time(retries))
                       /\ bpc' = "sleeping"
                       /\ UNCHANGED braised
          ELSE \* no handler matches: the exception leaves the call
               /\ braised' = thrown
               /\ bpc' = "cancelled"
               /\ UNCHANGED <<health, waits, last_cause, last_exc, bresult>>

\* the adapter call ends with outcome raw
AdapterDone(raw) ==
    /\ bpc = "awaiting"
    /\ AttemptEnds(IF raw.out = "raise" THEN raw.exc ELSE validate_market_data(raw),
                   normalize_market_data(source_name, raw, now))
    /\ UNCHANGED <<priority, api_key, xvars, now, source_name, bsym, retries, attempts,
                   adapter_calls, cancel_sent, cvars, pvars, kvars, mvars>>

\* the caller cancels the task: CancelledError is raised at the await the task
\* is suspended in, the adapter call or the backoff sleep (which is inside the
\* wrapper's except clause, under no try of its own)
Cancel ==
    /\ bpc \in {"awaiting", "sleeping"}
    /\ cancel_sent' = TRUE
    /\ IF bpc = "awaiting"
       THEN AttemptEnds("CancelledError", NoData)
       ELSE /\ braised' = "CancelledError"
            /\ bpc' = "cancelled"
            /\ UNCHANGED <<health, cache, waits, last_cause, last_exc, bresult>>
    /\ UNCHANGED <<priority, api_key, xvars, now, source_name, bsym, retries, attempts,
                   adapter_calls, cvars, pvars, kvars, mvars>>

\* asyncio.sleep(wait_time) is over: retries += 1, back to the loop test
SleepDone ==
    /\ bpc = "sleeping"
    /\ retries' = retries + 1
    /\ bpc' = IF retries + 1 <= max_retries THEN "attempt" ELSE "raised"
    /\ braised' = IF retries + 1 <= max_retries THEN braised ELSE exhausted_class
    /\ UNCHANGED <<priority, api_key, xvars, health, now, source_name, cache, bsym, attempts,
                   adapter_calls, waits, last_cause, last_exc, bresult, cancel_sent,
                   cvars, pvars, kvars, mvars>>

InitFetch ==
    /\ priority = DefaultPriority
    /\ api_key = [s \in {"alpha_vantage", "fmp"} |-> TRUE]
    /\ FreshTables
    /\ source_name \in Sources
    /\ FetchIdle /\ CoordIdle /\ ProbeIdle /\ TasksIdle /\ ModelsIdle /\ ValuatorIdle

NextFetch ==
    \/ \E s \in Sources : Construct(s)
    \/ \E sym \in Symbols : FetchCall(sym)
    \/ CacheHit
    \/ AdapterCall
    \/ \E raw \in RawOutcomes : AdapterDone(raw)
    \/ SleepDone
    \/ Cancel
    \/ \E d \in TickSteps : Tick(d)

SpecFetch == InitFetch /\ [][NextFetch]_vars

\* ------------------------------------------------- the DataService adapters
\* DataService.fetchers, as the table is written. (FMPFetcher defines neither
\* _fetch_raw_market_data nor _fetch_raw_financials, so FMPFetcher() itself
\* raises TypeError for an abstract class; the coordinator's methods are
\* modelled over the table with the fmp adapter's methods as they are written.)
Fetchers == {"yahoo", "alpha_vantage", "fmp"}

\* priority lists: every fetcher DataService builds must be listed
\* (BaseFetcher.__init__ looks its name up); ibkr is listed but not built
Priorities ==
    {<<"yahoo", "alpha_vantage", "fmp">>, <<"yahoo", "fmp", "alpha_vantage">>,
     <<"alpha_vantage", "yahoo", "fmp">>, <<"alpha_vantage", "fmp", "yahoo">>,
     <<"fmp", "yahoo", "alpha_vantage">>, <<"fmp", "alpha_vantage", "yahoo">>,
     <<"ibkr", "yahoo", "alpha_vantage", "fmp">>}

\* counters earlier inherited fetches leave in the table: none, one failure
\* followed by a success, four failures (an exhausted call)
PriorCounters ==
    {HealthStatus, [success_count |-> 1, error_count |-> 1],
     [success_count |-> 0, error_count |-> 4]}

\* the async is_available() of YahooFetcher, AlphaVantageFetcher, FMPFetcher
adapter_is_available(s, keys) ==
    IF s = "yahoo" THEN TRUE ELSE keys[s]

Dict(keys, price, t) ==
    [kind |-> "dict", keys |-> keys, source |-> "", price |-> price, timestamp |-> t]

Outcome(exc, data, network, ok) ==
    [exc |-> exc, data |-> data, network |-> network, ok |-> ok]

\* YahooFetcher.fetch_market_data: the raw dict, not validated nor normalized
YahooMarket(t) ==
    {Outcome("NoException",
             Dict({"price", "volume", "currency", "timestamp"}, p, t), TRUE, TRUE) :
        p \in {[t |-> "num", v |-> 100], [t |-> "none", v |-> 0]}}
    \cup {Outcome("NetworkError", NoData, TRUE, FALSE)}

\* YahooFetcher.fetch_financials
YahooFinancials(t) ==
    {Outcome("NoException",
             Dict({"pe_ratio", "market_cap", "eps", "revenue", "timestamp"}, NoPrice, t),
             TRUE, TRUE),
     Outcome("NetworkError", NoData, TRUE, FALSE)}

\* AlphaVantageFetcher.fetch_market_data: None when the request or the parse fails
AlphaVantageMarket ==
    {Outcome("NoException", Dict({"price", "volume", "pe"}, [t |-> "num", v |-> 100], 0),
             TRUE, TRUE),
     Outcome("NoException", NoData, TRUE, FALSE)}

\* FMPFetcher.fetch_market_data(symbol) / fetch_financials(symbol) called with
\* (symbol, country): TypeError before any request
FMPCall == {Outcome("TypeError", NoData, FALSE, FALSE)}

\* what fetcher.fetch_market_data / fetch_financials can do for source s
AdapterOutcomes(kind, s, t) ==
    IF s = "yahoo" THEN (IF kind = "market" THEN YahooMarket(t) ELSE YahooFinancials(t))
    ELSE IF s = "alpha_vantage" THEN AlphaVantageMarket
    ELSE FMPCall

\* ------------------------- DataService.get_market_data / get_financials
Kinds == {"market", "financials"}

InLoop == cpc = "loop" /\ idx <= Len(priority)

\* what the fetch of the source the loop is at can do
CurrentOutcomes ==
    IF idx \in DOMAIN priority THEN AdapterOutcomes(ckind, priority[idx], now) ELSE {}

\* the call begins: errors = []
GetCall(kind, sym) ==
    /\ FetchAtRest /\ CoordAtRest
    /\ cpc' = "loop"
    /\ ckind' = kind
    /\ csym' = sym
    /\ idx' = 1
    /\ errors' = <<>>
    /\ contacted' = <<>>
    /\ cresult' = NoData
    /\ returned_at' = 0
    /\ prev_ok' = IF cpc = "returned" /\ ckind = "market"
                  THEN [sym |-> csym, data |-> cresult, at |-> returned_at]
                  ELSE NoPrev
    /\ UNCHANGED <<priority, api_key, xvars, health, now, fvars, pvars, kvars, mvars>>

\* get_financials: `if source_name == 'alpha_vantage': continue`
SkipAlphaVantage ==
    /\ InLoop
    /\ ckind = "financials" /\ priority[idx] = "alpha_vantage"
    /\ idx' = idx + 1
    /\ UNCHANGED <<priority, api_key, xvars, health, now, fvars, pvars, kvars, mvars, cpc, ckind, csym,
                   errors, contacted, cresult, returned_at, prev_ok>>

\* the loop reaches the fetcher lookup and the try block for this source
AtFetcher ==
    /\ InLoop
    /\ ~(ckind = "financials" /\ priority[idx] = "alpha_vantage")

\* `if not fetcher: continue`
SkipNoFetcher ==
    /\ AtFetcher
    /\ priority[idx] \notin Fetchers
    /\ idx' = idx + 1
    /\ UNCHANGED <<priority, api_key, xvars, health, now, fvars, pvars, kvars, mvars, cpc, ckind, csym,
                   errors, contacted, cresult, returned_at, prev_ok>>

\* `if await fetcher.is_available()` is false
Unavailable ==
    /\ AtFetcher
    /\ priority[idx] \in Fetchers
    /\ ~adapter_is_available(priority[idx], api_key)
    /\ idx' = idx + 1
    /\ UNCHANGED <<priority, api_key, xvars, health, now, fvars, pvars, kvars, mvars, cpc, ckind, csym,
                   errors, contacted, cresult, returned_at, prev_ok>>

Contact(s, o) ==
    [source |-> s, healthy |-> is_healthy(health[s]), network |-> o.network, ok |-> o.ok]

\* the fetch returns: `return data`
FetchReturned(o) ==
    /\ AtFetcher
    /\ priority[idx] \in Fetchers
    /\ adapter_is_available(priority[idx], api_key)
    /\ o.exc = "NoException"
    /\ contacted' = Append(contacted, Contact(priority[idx], o))
    /\ cresult' = o.data
    /\ returned_at' = now
    /\ cpc' = "returned"
    /\ UNCHANGED <<priority, api_key, xvars, health, now, fvars, pvars, kvars, mvars, ckind, csym, idx,
                   errors, prev_ok>>

\* the fetch raises: `except Exception as e: errors.append(...)`
FetchRaised(o) ==
    /\ AtFetcher
    /\ priority[idx] \in Fetchers
    /\ adapter_is_available(priority[idx], api_key)
    /\ IsInstance(o.exc, "Exception")
    /\ contacted' = Append(contacted, Contact(priority[idx], o))
    /\ errors' = Append(errors, [source |-> priority[idx], reason |-> o.exc])
    /\ idx' = idx + 1
    /\ UNCHANGED <<priority, api_key, xvars, health, now, fvars, pvars, kvars, mvars, cpc, ckind, csym,
                   cresult, returned_at, prev_ok>>

\* the loop is over: `raise Exception(... '; '.join(errors))`
AllExhausted ==
    /\ cpc = "loop" /\ idx > Len(priority)
    /\ cpc' = "failed"
    /\ UNCHANGED <<priority, api_key, xvars, health, now, fvars, pvars, kvars, mvars, ckind, csym, idx,
                   errors, contacted, cresult, returned_at, prev_ok>>

\* DataService() built in a process whose health table holds the counters
\* earlier inherited fetches left (BaseFetcher.__init__ keeps them)
Init ==
    /\ priority \in Priorities
    /\ api_key \in [{"alpha_vantage", "fmp"} -> BOOLEAN]
    /\ health \in [Sources -> PriorCounters]
    /\ cache = [k \in CacheKeys |-> NoEntry]
    /\ now = 0
    /\ source_name = "yahoo"
    /\ FetchIdle /\ CoordIdle /\ ProbeIdle /\ TasksIdle /\ ModelsIdle /\ ValuatorIdle

Next ==
    \/ \E kind \in Kinds, sym \in Symbols : GetCall(kind, sym)
    \/ SkipAlphaVantage
    \/ SkipNoFetcher
    \/ Unavailable
    \/ \E o \in CurrentOutcomes : FetchReturned(o)
    \/ \E o \in CurrentOutcomes : FetchRaised(o)
    \/ AllExhausted
    \/ \E d \in TickSteps : Tick(d)

Spec == Init /\ [][Next]_vars

\* ------------------------------------------- HealthStatus on its own
\* one more attempt is recorded on the probed HealthStatus
Record(success) ==
    /\ probe.success_count + probe.error_count < MaxProbe
    /\ probe' = record(probe, success)
    /\ pdone' = FALSE
    /\ UNCHANGED <<priority, api_key, xvars, health, now, fvars, cvars, probed, kvars, mvars>>

\* HealthStatus.is_healthy is read
ReadHealthy ==
    /\ probed' = is_healthy(probe)
    /\ pdone' = TRUE
    /\ UNCHANGED <<priority, api_key, xvars, health, now, fvars, cvars, probe, kvars, mvars>>

InitHealth ==
    /\ priority = DefaultPriority
    /\ api_key = [s \in {"alpha_vantage", "fmp"} |-> TRUE]
    /\ FreshTables
    /\ source_name = "yahoo"
    /\ FetchIdle /\ CoordIdle /\ ProbeIdle /\ TasksIdle /\ ModelsIdle /\ ValuatorIdle

NextHealth ==
    \/ \E success \in BOOLEAN : Record(success)
    \/ ReadHealthy

SpecHealth == InitHealth /\ [][NextHealth]_vars

\* ------------------- concurrent fetch_market_data calls on one fetcher
\* Tasks run on one event loop: a step is what a task does between two awaits.

\* the counters a task would write back had it read them before its await
counters_read_before_await(t) == tseen[t]

\* _update_health: `status = self._health_status[self.source_name]` followed
\* by `status.success_count += 1`, with no await in between
counters_held(t) == health[source_name]

\* one more pass of the wrapper's loop for task t with retry counter r: the
\* cache check of the wrapped function, then its return or its adapter call;
\* calls is the number of adapter calls the call has made so far
TaskAttempt(t, sym, r, calls) ==
    LET hit == get_cache(cache, cache_key(sym), now)
    IN /\ tsym' = [tsym EXCEPT ![t] = sym]
       /\ tretries' = [tretries EXCEPT ![t] = r]
       /\ IF hit # NoData
          THEN /\ tpc' = [tpc EXCEPT ![t] = after_success]
               /\ tresult' = [tresult EXCEPT ![t] = hit]
               /\ tcalls' = [tcalls EXCEPT ![t] = calls]
               /\ UNCHANGED tseen
          ELSE /\ tpc' = [tpc EXCEPT ![t] = "awaiting"]
               /\ tseen' = [tseen EXCEPT ![t] = health[source_name]]
               /\ tcalls' = [tcalls EXCEPT ![t] = calls + 1]
               /\ UNCHANGED tresult

\* task t calls fetch_market_data(symbol, country) and runs to its first await
TaskCall(t, sym) ==
    /\ tpc[t] \in {"idle", "returned", "raised"}
    /\ Recorded(health) + 8 <= MaxShared
    /\ TaskAttempt(t, sym, 0, 0)
    /\ UNCHANGED <<priority, api_key, xvars, health, now, source_name, cache, callvars,
                   cvars, pvars, mvars, ok_attempts, failed_attempts>>

\* the adapter call of task t ends with outcome raw
TaskAdapterDone(t, raw) ==
    /\ tpc[t] = "awaiting"
    /\ LET exc == IF raw.out = "raise" THEN raw.exc ELSE validate_market_data(raw)
           normalized == normalize_market_data(source_name, raw, now)
       IN /\ cache' = cache_after_attempt(cache, cache_key(tsym[t]), exc, normalized, now)
          /\ health' = [health EXCEPT
                          ![source_name] = record(counters_held(t), exc = "NoException")]
          /\ tseen' = [tseen EXCEPT ![t] = HealthStatus]
          /\ IF exc = "NoException"
             THEN /\ tresult' = [tresult EXCEPT ![t] = normalized]
                  /\ tpc' = [tpc EXCEPT ![t] = after_success]
                  /\ ok_attempts' = ok_attempts + 1
                  /\ UNCHANGED failed_attempts
             ELSE /\ tpc' = [tpc EXCEPT ![t] =
                               IF retries_exhausted(tretries[t]) THEN "raised" ELSE "sleeping"]
                  /\ failed_attempts' = failed_attempts + 1
                  /\ UNCHANGED <<tresult, ok_attempts>>
    /\ UNCHANGED <<priority, api_key, xvars, now, source_name, callvars, cvars, pvars, mvars,
                   tsym, tretries, tcalls>>

\* the backoff sleep of task t is over: retries += 1 and the next attempt
TaskWake(t) ==
    /\ tpc[t] = "sleeping"
    /\ TaskAttempt(t, tsym[t], tretries[t] + 1, tcalls[t])
    /\ UNCHANGED <<priority, api_key, xvars, health, now, source_name, cache, callvars,
                   cvars, pvars, mvars, ok_attempts, failed_attempts>>

InitConc ==
    /\ priority = DefaultPriority
    /\ api_key = [s \in {"alpha_vantage", "fmp"} |-> TRUE]
    /\ FreshTables
    /\ source_name \in Sources
    /\ FetchIdle /\ CoordIdle /\ ProbeIdle /\ TasksIdle /\ ModelsIdle /\ ValuatorIdle

NextConc ==
    \/ \E t \in Tasks, sym \in Symbols : TaskCall(t, sym)
    \/ \E t \in Tasks, raw \in RawOutcomes : TaskAdapterDone(t, raw)
    \/ \E t \in Tasks : TaskWake(t)

SpecConc == InitConc /\ [][NextConc]_vars

\* ------------------------------------------------- MonteCarloValuator
\* Money is in whole currency units, except the stored simulation values,
\* which are in tenths (0.7 * dcf + 0.3 * pe_val is (7 * dcf + 3 * pe_val) / 10),
\* and the valuation range, which is in fortieths (a quartile lies a whole
\* number of quarters of the way between two stored values).
\* Probabilities are in units of 0.0001.

\* d.get(key, default)
dict_get(entry, default) == IF entry.t = "missing" THEN Num(default) ELSE entry

\* the exception float(x) raises: float(None) is a TypeError
float_exc(x) == IF x.t = "none" THEN "TypeError" ELSE "NoException"

\* the test letting a zero price through
negative(x) == x < 0

\* run_simulation and _run_monte_carlo: `if current_price <= 0`
non_positive(x) == x <= 0

default_pe == 15

\* _get_pe: what the lookup raised and, when it returned, the value
get_pe(md) ==
    LET x == dict_get(md.pe_ratio, 0)
        exc == float_exc(x)
    IN IF exc = "NoException"
       THEN [called |-> TRUE, exc |-> "NoException",
             v |-> IF x.v <= 0 \/ x.v > 50 THEN default_pe ELSE x.v]
       ELSE IF exc \in {"KeyError", "ValueError"}
       THEN [called |-> TRUE, exc |-> "NoException", v |-> default_pe]
       ELSE [called |-> TRUE, exc |-> exc, v |-> 0]

\* np.clip
clip(x, lo, hi) == IF x < lo THEN lo ELSE IF x > hi THEN hi ELSE x

\* the value a draw stores, in tenths: 0.7 * dcf_val + 0.3 * pe * eps clipped
\* to [0.8 * current_price, 1.5 * current_price]
stored_value(dcf_val, pe, eps, current_price) ==
    clip(7 * dcf_val + 3 * (pe * eps), 8 * current_price, 15 * current_price)

\* round(k / n, 4) in units of 0.0001, ties to even (for the simulation counts
\* enumerated here 10000 * k / n is never a tie, and never close enough to one
\* for the double quotient to round differently from the exact one)
round4(k, n) ==
    LET q == (10000 * k) \div n
        r == (10000 * k) % n
    IN IF 2 * r < n THEN q
       ELSE IF 2 * r > n THEN q + 1
       ELSE IF q % 2 = 0 THEN q ELSE q + 1

\* price_diff < -0.10 and price_diff > 0.10 for
\* price_diff = (simulations - current_price) / current_price, the stored
\* value v in tenths
is_undervalued(v, current_price) == 10 * (v - 10 * current_price) < -1 * (10 * current_price)
is_overvalued(v, current_price) == 10 * (v - 10 * current_price) > 10 * current_price

\* _calculate_probabilities
calculate_probabilities(sims, current_price) ==
    LET n == Len(sims)
        under == Cardinality({i \in DOMAIN sims : is_undervalued(sims[i], current_price)})
        over == Cardinality({i \in DOMAIN sims : is_overvalued(sims[i], current_price)})
    IN [kind |-> "dict",
        undervalued |-> round4(under, n),
        overvalued |-> round4(over, n),
        fair_valued |-> round4(n - under - over, n)]

\* np.percentile sorts its argument
sorted(sims) == SortSeq(sims, LAMBDA a, b : a < b)

\* the quartile read from the other end of the sorted values
percentile_from_top(sims, quarter) ==
    LET s == sorted(sims)
        pos == (4 - quarter) * (Len(s) - 1)
        lo == pos \div 4
        frac == pos % 4
    IN IF frac = 0 THEN 4 * s[lo + 1]
       ELSE 4 * s[lo + 1] + frac * (s[lo + 2] - s[lo + 1])

\* np.percentile(simulations, 25 * quarter), four times the value so that the
\* linear interpolation between neighbours stays whole: the virtual index is
\* quarter * (n - 1) / 4, its fraction weighs the step to the next value
percentile(sims, quarter) ==
    LET s == sorted(sims)
        pos == quarter * (Len(s) - 1)
        lo == pos \div 4
        frac == pos % 4
    IN IF frac = 0 THEN 4 * s[lo + 1]
       ELSE 4 * s[lo + 1] + frac * (s[lo + 2] - s[lo + 1])

\* the dictionary run_simulation returns: valuation_range as float(np.percentile)
\* in fortieths of a currency unit, probabilities in units of 0.0001
simulation_result(sims, current_price) ==
    LET pr == calculate_probabilities(sims, current_price)
    IN [kind |-> "dict",
        low |-> percentile(sims, 1),
        medium |-> percentile(sims, 2),
        high |-> percentile(sims, 3),
        undervalued |-> pr.undervalued,
        overvalued |-> pr.overvalued,
        fair_valued |-> pr.fair_valued]

\* the inputs a valuator is built with
Prices == {Missing, None, Num(0), Num(-5), Num(40), Num(100)}
PeRatios == {Missing, None, Num(0), Num(-3), Num(12), Num(50), Num(51)}
CashFlows == {Missing, Num(1000)}
EpsValues == {Missing, None, Num(-2), Num(5)}

\* what DCFValuation.calculate returns for the drawn growth and discount
\* rates, and the PE multiple drawn from the log-normal distribution
DcfVals == {-5000, 0, 100, 150, 5000}
PeDraws == {1, 15, 60}

\* the run ends with an exception of class exc
Fails(exc) ==
    /\ mpc' = "failed"
    /\ merr' = exc

\* run_simulation up to the first draw: the price guard, then in
\* _run_monte_carlo the same guard and the distribution parameters
RunSimulation ==
    /\ mpc = "idle"
    /\ LET x == dict_get(market_data.price, 0)
           lookup == get_pe(market_data)
       IN IF float_exc(x) # "NoException"
          THEN Fails(float_exc(x)) /\ UNCHANGED pe_lookup
          ELSE IF non_positive(x.v)
          THEN Fails("ValueError") /\ UNCHANGED pe_lookup
          ELSE /\ pe_lookup' = lookup
               /\ IF lookup.exc # "NoException"
                  THEN Fails(lookup.exc)
                  ELSE mpc' = "drawing" /\ UNCHANGED merr
    /\ UNCHANGED <<priority, api_key, xvars, health, now, fvars, cvars, pvars, kvars,
                   market_data, financials, n_sims, simulations, mresult>>

\* one pass of the loop: DCFValuation(self.financials).calculate(...) gives
\* dcf_val, the drawn multiple is pe
Draw(dcf_val, pe) ==
    /\ mpc = "drawing"
    /\ Len(simulations) < n_sims
    /\ LET fcf == financials.free_cash_flow
           eps == dict_get(financials.eps, 0)
       IN IF fcf.t = "missing"
          THEN Fails("KeyError") /\ UNCHANGED simulations
          ELSE IF float_exc(fcf) # "NoException"
          THEN Fails(float_exc(fcf)) /\ UNCHANGED simulations
          ELSE IF float_exc(eps) # "NoException"
          THEN Fails(float_exc(eps)) /\ UNCHANGED simulations
          ELSE /\ simulations' =
                    Append(simulations,
                           stored_value(dcf_val, pe, eps.v, market_data.price.v))
               /\ UNCHANGED <<mpc, merr>>
    /\ UNCHANGED <<priority, api_key, xvars, health, now, fvars, cvars, pvars, kvars,
                   market_data, financials, n_sims, pe_lookup, mresult>>

\* the loop is over: run_simulation builds its result
ReturnResult ==
    /\ mpc = "drawing"
    /\ Len(simulations) = n_sims
    /\ mresult' = simulation_result(simulations, market_data.price.v)
    /\ mpc' = "done"
    /\ UNCHANGED <<priority, api_key, xvars, health, now, fvars, cvars, pvars, kvars,
                   market_data, financials, n_sims, simulations, pe_lookup, merr>>

InitMC ==
    /\ priority = DefaultPriority
    /\ api_key = [s \in {"alpha_vantage", "fmp"} |-> TRUE]
    /\ FreshTables
    /\ source_name = "yahoo"
    /\ FetchIdle /\ CoordIdle /\ ProbeIdle /\ TasksIdle /\ ModelsIdle
    /\ market_data \in [price : Prices, pe_ratio : PeRatios]
    /\ financials \in [free_cash_flow : CashFlows, eps : EpsValues]
    /\ n_sims \in 1..MaxSims
    /\ mpc = "idle"
    /\ simulations = <<>>
    /\ pe_lookup = NoLookup
    /\ merr = "NoException"
    /\ mresult = NoResult

NextMC ==
    \/ RunSimulation
    \/ \E dcf_val \in DcfVals, pe \in PeDraws : Draw(dcf_val, pe)
    \/ ReturnResult

SpecMC == InitMC /\ [][NextMC]_vars

\* ----------------------------- MonteCarloValuator._predict_next_quarters
\* Prices of the forecast are in cents. drift is in units of 0.1 and sigma in
\* units of 0.05, so that the quarterly return drift / 4 + (sigma / 2) * z is
\* a whole number of fortieths for a whole shock z. The walking price is in
\* units of 40^-4 cent, in which four steps of the walk stay whole.

\* the default of the parameter quarters
quarters == 4

\* units of the walking price in one cent
Fine == 40 * 40 * 40 * 40

\* round(float(price), 2), from units of 40^-4 cent to cents, ties to even
round2(x) ==
    LET q == x \div Fine
        r == x % Fine
    IN IF 2 * r < Fine THEN q
       ELSE IF 2 * r > Fine THEN q + 1
       ELSE IF q % 2 = 0 THEN q ELSE q + 1

\* the arguments run_simulation passes, the price it was built with and the
\* values np.random.normal() returns
ForecastPrices == {103, 200}
Drifts == {-5, -1, 0, 1, 3}
Sigmas == {0, 1, 2, 4, 9}
Shocks == {-9, -1, 0, 1, 9}

\* the statements before the loop
PredictNextQuarters ==
    /\ qpc = "idle"
    /\ drift' = clip(drift, -1, 1)
    /\ sigma' = clip(sigma, 1, 4)
    /\ walk' = start_price * Fine
    /\ predictions' = <<>>
    /\ qpc' = "walking"
    /\ UNCHANGED <<oldvars, dvars, avars, start_price>>

\* one pass of the loop with the shock z
Quarter(z) ==
    /\ qpc = "walking"
    /\ Len(predictions) < quarters
    /\ LET quarterly_return == drift + sigma * z
           moved == (walk \div 40) * (40 + quarterly_return)
           clipped == clip(moved, 8 * start_price * (Fine \div 10),
                           12 * start_price * (Fine \div 10))
       IN /\ walk' = clipped
          /\ predictions' = Append(predictions, round2(clipped))
    /\ UNCHANGED <<oldvars, dvars, avars, start_price, drift, sigma, qpc>>

\* the loop is over
ReturnPredictions ==
    /\ qpc = "walking"
    /\ Len(predictions) = quarters
    /\ qpc' = "done"
    /\ UNCHANGED <<oldvars, dvars, avars, start_price, drift, sigma, walk, predictions>>

InitForecast ==
    /\ priority = DefaultPriority
    /\ api_key = [s \in {"alpha_vantage", "fmp"} |-> TRUE]
    /\ FreshTables
    /\ source_name = "yahoo"
    /\ FetchIdle /\ CoordIdle /\ ProbeIdle /\ TasksIdle /\ ValuatorIdle
    /\ DcfIdle /\ MainIdle
    /\ start_price \in ForecastPrices
    /\ drift \in Drifts
    /\ sigma \in Sigmas
    /\ walk = 0
    /\ predictions = <<>>
    /\ qpc = "idle"

NextForecast ==
    \/ PredictNextQuarters
    \/ \E z \in Shocks : Quarter(z)
    \/ ReturnPredictions

SpecForecast == InitForecast /\ [][NextForecast]_vars

\* ------------------------------------------------------- DCFValuation
\* Rates are whole multiples of 1 (100 %), which keeps every power whole.
\* Cash flows are in 64ths of a currency unit: each of the three transition
\* years divides by 4. A value that was divided by discount_rate -
\* terminal_growth or discounted is the fraction num / den of 64ths.

transition_years == 3

\* 64ths in one currency unit
Unit == 4 * 4 * 4

RECURSIVE pow(_, _)
\* b ** n
pow(b, n) == IF n = 0 THEN 1 ELSE b * pow(b, n - 1)

\* the cash flow added to the growth factor instead of multiplied by it
high_growth_flow_added(fcf, g, i) == Unit * (fcf + pow(1 + g, i))

\* fcf * (1 + growth_rate)**i
high_growth_flow(fcf, g, i) == Unit * fcf * pow(1 + g, i)

\* 4 * (1 + transition_growth) once decline_rate =
\* (growth_rate - terminal_growth) / (transition_years + 1) was subtracted
\* k times from growth_rate
transition_factor(g, tg, k) == 4 + 4 * g - k * (g - tg)

RECURSIVE transition_flow(_, _, _, _)
\* fcf after k passes of `fcf *= (1 + transition_growth)`, starting from
\* self.free_cash_flow
transition_flow(fcf, g, tg, k) ==
    IF k = 0 THEN Unit * fcf
    ELSE (transition_flow(fcf, g, tg, k - 1) * transition_factor(g, tg, k)) \div 4

\* the list without any growth
project_flat(fcf, years, g, tg) ==
    [i \in 1..(years + transition_years) |-> Unit * fcf]

\* the list high_growth after both loops
project(fcf, years, g, tg) ==
    [i \in 1..(years + transition_years) |->
        IF i <= years THEN high_growth_flow(fcf, g, i)
        ELSE transition_flow(fcf, g, tg, i - years)]

\* fcf * (1 + terminal_growth) / (discount_rate - terminal_growth)
perpetuity(fcf, d, tg) == Frac(fcf * (1 + tg), d - tg)

RECURSIVE discounted_sum(_, _, _, _)
\* the first i cash flows, each times 1 / (1 + discount_rate)**j, over the
\* denominator scale * (1 + discount_rate)**n
discounted_sum(flows, d, n, i) ==
    IF i = 0 THEN 0
    ELSE flows[i] * pow(1 + d, n - i) + discounted_sum(flows, d, n, i - 1)

\* a fraction with a positive denominator
positive_den(f) == IF f.den < 0 THEN Frac(-f.num, -f.den) ELSE f

\* np.sum(cash_flows * discount_factors) for cash_flows = high_growth +
\* [terminal_value]
discount_flows(flows, tv, d) ==
    LET n == Len(flows) + 1
    IN positive_den(Frac(tv.den * discounted_sum(flows, d, n, Len(flows)) + tv.num,
                         tv.den * pow(1 + d, n)))

\* calculate as a whole, for discount_rate # terminal_growth
calculate(fcf, years, g, d, tg) ==
    LET flows == project(fcf, years, g, tg)
    IN discount_flows(flows, perpetuity(flows[Len(flows)], d, tg), d)

\* a < b for fractions with positive denominators
frac_less(a, b) == a.num * b.den < b.num * a.den

\* what the valuation is built and called with
DcfCashFlows == {Missing, None, Num(-1), Num(0), Num(1), Num(2)}
GrowthYears == {1, 2}
Growths == {0, 1, 2}
Discounts == {0, 1, 2}
TerminalGrowths == {0, 1}

\* the call ends with an exception of class exc
DcfFails(exc) ==
    /\ dpc' = "failed"
    /\ derr' = exc

\* DCFValuation.__init__
NewValuation ==
    /\ dpc = "new"
    /\ LET entry == financials.free_cash_flow
       IN IF entry.t = "missing"
          THEN DcfFails("KeyError") /\ UNCHANGED free_cash_flow
          ELSE IF float_exc(entry) # "NoException"
          THEN DcfFails(float_exc(entry)) /\ UNCHANGED free_cash_flow
          ELSE /\ free_cash_flow' = entry.v
               /\ dpc' = "built"
               /\ UNCHANGED derr
    /\ UNCHANGED <<oldvars, qvars, avars, high_growth_years, growth_rate, discount_rate,
                   terminal_growth, high_growth, transition_growth, run_fcf,
                   terminal_value, present_value>>

\* calculate: the high-growth list and the transition loop
Project ==
    /\ dpc = "built"
    /\ high_growth' = project(free_cash_flow, high_growth_years, growth_rate,
                              terminal_growth)
    /\ transition_growth' =
           4 * growth_rate - transition_years * (growth_rate - terminal_growth)
    /\ run_fcf' = transition_flow(free_cash_flow, growth_rate, terminal_growth,
                                  transition_years)
    /\ dpc' = "projected"
    /\ UNCHANGED <<oldvars, qvars, avars, free_cash_flow, high_growth_years, growth_rate,
                   discount_rate, terminal_growth, terminal_value, present_value,
                   derr>>

\* calculate: the terminal value and the discounting
Discount ==
    /\ dpc = "projected"
    /\ IF discount_rate = terminal_growth
       THEN DcfFails("ZeroDivisionError") /\ UNCHANGED <<terminal_value, present_value>>
       ELSE /\ terminal_value' = perpetuity(run_fcf, discount_rate, terminal_growth)
            /\ present_value' =
                   discount_flows(high_growth,
                                  perpetuity(run_fcf, discount_rate, terminal_growth),
                                  discount_rate)
            /\ dpc' = "done"
            /\ UNCHANGED derr
    /\ UNCHANGED <<oldvars, qvars, avars, free_cash_flow, high_growth_years, growth_rate,
                   discount_rate, terminal_growth, high_growth, transition_growth,
                   run_fcf>>

InitDCF ==
    /\ priority = DefaultPriority
    /\ api_key = [s \in {"alpha_vantage", "fmp"} |-> TRUE]
    /\ FreshTables
    /\ source_name = "yahoo"
    /\ FetchIdle /\ CoordIdle /\ ProbeIdle /\ TasksIdle /\ ForecastIdle /\ MainIdle
    /\ market_data = [price |-> Num(100), pe_ratio |-> Missing]
    /\ financials \in [free_cash_flow : DcfCashFlows, eps : {Num(5)}]
    /\ n_sims = 1
    /\ mpc = "idle"
    /\ simulations = <<>>
    /\ pe_lookup = NoLookup
    /\ merr = "NoException"
    /\ mresult = NoResult
    /\ free_cash_flow = 0
    /\ high_growth_years \in GrowthYears
    /\ growth_rate \in Growths
    /\ discount_rate \in Discounts
    /\ terminal_growth \in TerminalGrowths
    /\ high_growth = <<>>
    /\ transition_growth = 0
    /\ run_fcf = 0
    /\ terminal_value = Frac(0, 1)
    /\ present_value = Frac(0, 1)
    /\ dpc = "new"
    /\ derr = "NoException"

NextDCF ==
    \/ NewValuation
    \/ Project
    \/ Discount

SpecDCF == InitDCF /\ [][NextDCF]_vars

\* ------------------------------------------------------- analyze_stock
\* Each step of the workflow ends with the class of the exception it raised,
\* "NoException" when it returned.

\* DataService(): as written FMPFetcher() raises TypeError, the class defines
\* neither _fetch_raw_market_data nor _fetch_raw_financials; NoException is
\* the construction once FMPFetcher is concrete
BuildOutcomes == {"TypeError", "NoException"}

\* get_market_data / get_financials: as written TypeError, the call passes one
\* argument for (symbol, country); with both arguments the call returns or
\* raises Exception when every source failed
FetchOutcomes == {"TypeError", "Exception", "NoException"}

\* MonteCarloValuator(financials, market_data).run_simulation()
SimulationOutcomes == {"ValueError", "KeyError", "TypeError", "NoException"}

\* the report dictionary: financials['currency'], market_data['price']
ReportOutcomes == {"KeyError", "NoException"}

\* TelegramNotifier.send_message
SendOutcomes == {"NotificationError", "NoException"}

\* DataService.close: the session's or a fetcher's close raised, re-raised
CloseOutcomes == {"Exception", "NoException"}

Countries == {"US", "JP", "CN"}

\* a statement of the try block raised: control goes to `except Exception`
ToHandler(step, exc) ==
    /\ apc' = "except"
    /\ failed_step' = step
    /\ raising' = exc

\* a statement before the try block, or of the finally block, raised: the
\* exception leaves analyze_stock
Leaves(exc) ==
    /\ apc' = "ended"
    /\ raising' = exc
    /\ returned' = "raised"

\* notifier = TelegramNotifier()
BuildNotifier ==
    /\ apc = "start"
    /\ notifier' = "open"
    /\ apc' = "build_service"
    /\ UNCHANGED <<oldvars, qvars, dvars, country_arg, data_service, delivered,
                   failed_step, raising, returned>>

\* data_service = DataService()
BuildService(exc) ==
    /\ apc = "build_service"
    /\ IF exc # "NoException"
       THEN Leaves(exc) /\ UNCHANGED data_service
       ELSE /\ data_service' = "open"
            /\ apc' = "format"
            /\ UNCHANGED <<raising, returned>>
    /\ UNCHANGED <<oldvars, qvars, dvars, country_arg, notifier, delivered, failed_step>>

\* formatted_symbol = format_stock_symbol(symbol, country)
FormatSymbol ==
    /\ apc = "format"
    /\ IF country_arg \in {"JP", "US"}
       THEN apc' = "market" /\ UNCHANGED <<failed_step, raising>>
       ELSE ToHandler("format", "ValueError")
    /\ UNCHANGED <<oldvars, qvars, dvars, country_arg, notifier, data_service, delivered,
                   returned>>

\* a statement of the try block between the formatting and the sending
TryStep(next, exc) ==
    IF exc = "NoException"
    THEN apc' = next /\ UNCHANGED <<failed_step, raising>>
    ELSE ToHandler(apc, exc)

\* market_data = await data_service.get_market_data(formatted_symbol)
GetMarketData(exc) ==
    /\ apc = "market"
    /\ TryStep("financials", exc)
    /\ UNCHANGED <<oldvars, qvars, dvars, country_arg, notifier, data_service, delivered,
                   returned>>

\* financials = await data_service.get_financials(formatted_symbol)
GetFinancials(exc) ==
    /\ apc = "financials"
    /\ TryStep("simulation", exc)
    /\ UNCHANGED <<oldvars, qvars, dvars, country_arg, notifier, data_service, delivered,
                   returned>>

\* results = MonteCarloValuator(financials, market_data).run_simulation()
Simulate(exc) ==
    /\ apc = "simulation"
    /\ TryStep("report", exc)
    /\ UNCHANGED <<oldvars, qvars, dvars, country_arg, notifier, data_service, delivered,
                   returned>>

\* the date is parsed and the report dictionary built
BuildReport(exc) ==
    /\ apc = "report"
    /\ TryStep("send", exc)
    /\ UNCHANGED <<oldvars, qvars, dvars, country_arg, notifier, data_service, delivered,
                   returned>>

\* await notifier.send_message(report, 'valuation'); return report
SendReport(exc) ==
    /\ apc = "send"
    /\ IF exc = "NoException"
       THEN /\ delivered' = delivered \cup {"valuation"}
            /\ returned' = "report"
            /\ apc' = "finally"
            /\ UNCHANGED <<failed_step, raising>>
       ELSE ToHandler("send", exc) /\ UNCHANGED <<delivered, returned>>
    /\ UNCHANGED <<oldvars, qvars, dvars, country_arg, notifier, data_service>>

\* except Exception: await notifier.send_message(error_msg, 'error'); raise
SendError(exc) ==
    /\ apc = "except"
    /\ IF exc = "NoException"
       THEN delivered' = delivered \cup {"error"} /\ UNCHANGED raising
       ELSE raising' = exc /\ UNCHANGED delivered
    /\ returned' = "raised"
    /\ apc' = "finally"
    /\ UNCHANGED <<oldvars, qvars, dvars, country_arg, notifier, data_service, failed_step>>

\* finally: await data_service.close()
CloseService(exc) ==
    /\ apc = "finally"
    /\ IF exc = "NoException"
       THEN /\ data_service' = "closed"
            /\ apc' = "close_notifier"
            /\ UNCHANGED <<raising, returned>>
       ELSE Leaves(exc) /\ UNCHANGED data_service
    /\ UNCHANGED <<oldvars, qvars, dvars, country_arg, notifier, delivered, failed_step>>

\* finally: await notifier.close(), which logs what its own steps raise
CloseNotifier ==
    /\ apc = "close_notifier"
    /\ notifier' = "closed"
    /\ apc' = "ended"
    /\ UNCHANGED <<oldvars, qvars, dvars, country_arg, data_service, delivered,
                   failed_step, raising, returned>>

InitMain ==
    /\ priority = DefaultPriority
    /\ api_key = [s \in {"alpha_vantage", "fmp"} |-> TRUE]
    /\ FreshTables
    /\ source_name = "yahoo"
    /\ FetchIdle /\ CoordIdle /\ ProbeIdle /\ TasksIdle /\ ValuatorIdle
    /\ ForecastIdle /\ DcfIdle
    /\ apc = "start"
    /\ country_arg \in Countries
    /\ notifier = "none"
    /\ data_service = "none"
    /\ delivered = {}
    /\ failed_step = "none"
    /\ raising = "NoException"
    /\ returned = "none"

NextMain ==
    \/ BuildNotifier
    \/ \E exc \in BuildOutcomes : BuildService(exc)
    \/ FormatSymbol
    \/ \E exc \in FetchOutcomes : GetMarketData(exc)
    \/ \E exc \in FetchOutcomes : GetFinancials(exc)
    \/ \E exc \in SimulationOutcomes : Simulate(exc)
    \/ \E exc \in ReportOutcomes : BuildReport(exc)
    \/ \E exc \in SendOutcomes : SendReport(exc)
    \/ \E exc \in SendOutcomes : SendError(exc)
    \/ \E exc \in CloseOutcomes : CloseService(exc)
    \/ CloseNotifier

SpecMain == InitMain /\ [][NextMain]_vars

\* ================================================================ claims
\* the fields of a FinancialData record
FinancialFields == {"source", "revenue", "net_income", "eps", "report_date", "currency"}

\* a complete normalized record of the kind asked for
Complete(kind, d) ==
    /\ d.kind = "dict"
    /\ IF kind = "market"
       THEN MarketFields \subseteq d.keys /\ d.price.t = "num"
       ELSE FinancialFields \subseteq d.keys

\* the source has a fetcher and its adapter reports it available
Usable(s) ==
    /\ s \in Fetchers
    /\ adapter_is_available(s, api_key)

\* position of source s in the priority list
Position(s) == CHOOSE i \in DOMAIN priority : priority[i] = s

CallOver == cpc \in {"returned", "failed"}

\* C1: no fetch is invoked on a source that was unavailable or unhealthy when
\* the coordinator reached it; with three sources of which the first two are
\* unhealthy, a successful call fetches from exactly the third.
C1_UnusableSkipped ==
    /\ \A i \in DOMAIN contacted :
         contacted[i].healthy /\ adapter_is_available(contacted[i].source, api_key)
    /\ (/\ cpc = "returned"
        /\ Len(priority) = 3
        /\ ~is_healthy(health[priority[1]])
        /\ ~is_healthy(health[priority[2]]))
       => (Len(contacted) = 1 /\ contacted[1].source = priority[3])

\* C2: the returned record comes from the first source in priority order that
\* is usable and whose fetch succeeds; every source contacted before it failed;
\* sources are contacted in priority order and none after the returning one.
\* (Usable is the adapter's own availability: health is the subject of C1.)
C2_FirstSuccessInOrder ==
    cpc = "returned" =>
        LET n == Len(contacted) IN
        /\ n >= 1
        /\ contacted[n].ok
        /\ Usable(contacted[n].source)
        /\ \A i \in 1..(n - 1) : ~contacted[i].ok
        /\ \A i \in 1..(n - 1) :
             Position(contacted[i].source) < Position(contacted[i + 1].source)
        /\ \A j \in 1..(Position(contacted[n].source) - 1) :
             Usable(priority[j]) /\ ~(ckind = "financials" /\ priority[j] = "alpha_vantage")
               => \E i \in 1..(n - 1) : contacted[i].source = priority[j]

\* C3: when every source that was tried fails, the call ends in the aggregate
\* failure, and its message names every source that was tried.
C3_AggregateNamesAll ==
    (CallOver /\ \A i \in DOMAIN contacted : ~contacted[i].ok)
      => /\ cpc = "failed"
         /\ {contacted[i].source : i \in DOMAIN contacted}
              = {errors[i].source : i \in DOMAIN errors}

\* C4: a successful return is a complete normalized record; an absent, empty
\* or partial record is never returned as success.
C4_CompleteOrFail ==
    cpc = "returned" => Complete(ckind, cresult)

\* C5: a get_market_data that follows a successful one for the same symbol
\* within the time-to-live returns the identical record and makes no network
\* call on any source.
C5_IdempotentWithinTTL ==
    (/\ cpc \in {"loop", "returned", "failed"}
     /\ ckind = "market"
     /\ prev_ok.data # NoData
     /\ prev_ok.sym = csym
     /\ now < prev_ok.at + ttl)
      => /\ \A i \in DOMAIN contacted : ~contacted[i].network
         /\ cpc = "returned" => cresult = prev_ok.data

\* the waits backoff_factor * 2^k for k = 0 .. n-1
Backoffs(n) == [k \in 1..n |-> backoff_factor_ms * (2 ^ (k - 1))]

\* C6: a call whose every attempt fails makes exactly max_retries + 1 attempts
\* and max_retries waits of 0.5 s, 1 s, 2 s, none after the last attempt, and
\* ends with the retry-exhausted failure.
C6_RetryExhaustion ==
    /\ bpc = "raised" =>
         /\ braised = "RetryExhaustedError"
         /\ attempts = max_retries + 1
         /\ adapter_calls = max_retries + 1
         /\ waits = <<500, 1000, 2000>>
    /\ bpc \in {"attempt", "awaiting", "sleeping"} => attempts <= max_retries + 1
    /\ waits = Backoffs(Len(waits))

C6_Witness ==
    bpc = "raised" /\ attempts = 4 /\ Len(waits) = 3 /\ last_cause = "NetworkError"

\* C7: a call that fails k times and then succeeds returns after exactly k + 1
\* attempts and k waits; no attempt follows the success.
C7_RetrySuccess ==
    /\ attempts <= Len(waits) + 1
    /\ bpc = "returned" =>
         /\ attempts = Len(waits) + 1
         /\ Len(waits) <= max_retries
         /\ bresult # NoData
         /\ adapter_calls = attempts \/ (attempts = 1 /\ adapter_calls = 0)

C7_Witness ==
    bpc = "returned" /\ attempts = 3 /\ Len(waits) = 2 /\ adapter_calls = 3

\* C8: an attempt that fails with a validation error or a programming error
\* ends the call after that one attempt: no wait, no second adapter call.
C8_NoRetryOnValidation ==
    last_cause \in {"ValidationError", "TypeError"}
      => /\ bpc = "raised"
         /\ attempts = 1
         /\ adapter_calls = 1
         /\ waits = <<>>

\* C9 as stated: a handler for the plain data-fetch failure does not match the
\* retry-exhausted failure the call ends with.
C9_PlainHandlerMisses ==
    (bpc = "raised" /\ braised = "RetryExhaustedError")
      => ~IsInstance(braised, "DataFetchError")

\* C9 as amended: a handler for the retry-exhausted failure matches the failure
\* the call ends with and does not match the failure of an attempt; a handler
\* for the data-fetch failure matches both.
C9_ExhaustedHandlerDistinguishes ==
    /\ bpc = "raised" =>
         IsInstance(braised, "RetryExhaustedError") /\ IsInstance(braised, "DataFetchError")
    /\ last_exc # "NoException" =>
         IsInstance(last_exc, "DataFetchError") /\ ~IsInstance(last_exc, "RetryExhaustedError")

C9_Witness ==
    bpc = "raised" /\ braised = "RetryExhaustedError" /\ last_exc = "DataFetchError"

\* C10: is_healthy is true exactly when error_count = 0 or
\* success_count > 4 * error_count; at 4 successes and 1 error it is false.
C10_HealthyIffAboveFourFifths ==
    pdone =>
        /\ probed = (probe.error_count = 0 \/ probe.success_count > 4 * probe.error_count)
        /\ (probe.success_count = 4 /\ probe.error_count = 1) => ~probed

C10_Witness ==
    pdone /\ probe.success_count = 4 /\ probe.error_count = 1 /\ ~probed

\* C11: every attempt that reaches the adapter and ends adds one to exactly one
\* counter of its source, success_count when it succeeded and error_count when
\* it failed; the counters of the other sources do not change; no step, the
\* construction of a fetcher included, lowers or resets a counter.
C11_OneCounterPerAttempt ==
    [][/\ \A s \in Sources :
            /\ health'[s].success_count >= health[s].success_count
            /\ health'[s].error_count >= health[s].error_count
       /\ \A s \in Sources \ {source_name} : health'[s] = health[s]
       /\ IF bpc = "awaiting" /\ bpc' = "returned"
          THEN health'[source_name] =
                 [success_count |-> health[source_name].success_count + 1,
                  error_count |-> health[source_name].error_count]
          ELSE IF bpc = "awaiting" /\ bpc' \in {"sleeping", "raised"}
          THEN health'[source_name] =
                 [success_count |-> health[source_name].success_count,
                  error_count |-> health[source_name].error_count + 1]
          ELSE health' = health]_vars

C11_Witness ==
    /\ bpc = "returned" /\ adapter_calls = 3
    /\ health[source_name] = [success_count |-> 1, error_count |-> 2]
    /\ \E s \in Sources \ {source_name} :
         health[s] = [success_count |-> 1, error_count |-> 1]

\* C12: an entry put at time t is returned by every read at now < t + ttl
\* (ttl = 300) and is a miss for every read at now >= t + ttl; a put on a key
\* that holds an entry replaces it.
C12_FreshUntilExpiry ==
    [][/\ \A k \in CacheKeys :
            cache'[k] # cache[k] =>
              \/ cache'[k] = [data |-> bresult', expire |-> now + 300]
              \/ bpc' = "idle" /\ cache'[k] = NoEntry
       /\ (bpc = "attempt" /\ bpc' # "attempt") =>
            LET e == cache[cache_key(bsym)]
            IN IF e # NoEntry /\ now < e.expire
               THEN bresult' = e.data /\ adapter_calls' = adapter_calls
               ELSE bpc' = "awaiting" /\ adapter_calls' = adapter_calls + 1]_vars

\* a read at exactly t + ttl of the entry put at t = 0 went to the adapter
C12_Witness ==
    /\ now = 300
    /\ cache[cache_key(bsym)] # NoEntry
    /\ cache[cache_key(bsym)].expire = 300
    /\ bpc = "awaiting"

\* C13: the cache changes only in the step of a successful attempt; a failed
\* attempt, an exhausted call, a cache hit and the read of an expired entry
\* leave every entry as it is; a call served from the cache changes no health
\* counter and makes no adapter call.
C13_CacheChangesOnSuccessOnly ==
    [][/\ (cache' # cache /\ bpc' # "idle") =>
            /\ bpc = "awaiting" /\ bpc' = "returned"
            /\ health'[source_name].success_count = health[source_name].success_count + 1
       /\ (bpc = "attempt" /\ bpc' = "returned") =>
            /\ cache' = cache
            /\ health' = health
            /\ adapter_calls' = adapter_calls]_vars

\* a call ran out of retries while the expired entry of its key stayed stored
C13_Witness ==
    /\ bpc = "raised" /\ braised = "RetryExhaustedError"
    /\ cache[cache_key(bsym)] # NoEntry
    /\ now >= cache[cache_key(bsym)].expire

\* C16: once the caller has cancelled a call that was waiting for the adapter
\* or sleeping between attempts, the call is over with the cancellation itself:
\* no further attempt, no further wait, no health update, and the failure it
\* ends with is neither a data-fetch nor a retry-exhausted failure.
C16_CancellationStopsRetries ==
    [][cancel_sent' =>
         /\ bpc' = "cancelled"
         /\ braised' = "CancelledError"
         /\ ~IsInstance(braised', "DataFetchError")
         /\ attempts' = attempts
         /\ adapter_calls' = adapter_calls
         /\ waits' = waits
         /\ retries' = retries
         /\ health' = health
         /\ cache' = cache]_vars

\* cancelled during the backoff sleep that followed the second failure
C16_Witness ==
    cancel_sent /\ bpc = "cancelled" /\ attempts = 2 /\ Len(waits) = 2

\* cancelled while the third attempt was waiting for the adapter
C16_WitnessPending ==
    cancel_sent /\ bpc = "cancelled" /\ attempts = 3 /\ Len(waits) = 2

\* C14: under every interleaving of the tasks that fetch from one source,
\* success_count is the number of adapter attempts that succeeded and
\* error_count the number that failed: no update is lost.
C14_NoLostHealthUpdate ==
    /\ health[source_name].success_count = ok_attempts
    /\ health[source_name].error_count = failed_attempts
    /\ \A s \in Sources \ {source_name} : health[s] = HealthStatus

\* both tasks have finished after attempts of theirs overlapped
C14_Witness ==
    /\ \A t \in Tasks : tpc[t] = "returned" /\ tcalls[t] = 2
    /\ ok_attempts = 2 /\ failed_attempts = 2
    /\ health[source_name] = [success_count |-> 2, error_count |-> 2]

\* C15: two concurrent calls for the same (symbol, country) are serialized on
\* the cache key: they never both wait for the adapter, and both return the
\* same record.
C15_OneCallPerKey ==
    \A t1, t2 \in Tasks :
        (t1 # t2 /\ tsym[t1] = tsym[t2]) =>
            /\ ~(tpc[t1] = "awaiting" /\ tpc[t2] = "awaiting")
            /\ (tpc[t1] = "returned" /\ tpc[t2] = "returned") => tresult[t1] = tresult[t2]

\* the record carries a price above zero
PricePositive == market_data.price.t = "num" /\ market_data.price.v > 0

\* C17: with a current price p > 0 the run stores exactly n_sims values, one
\* per draw, each within [0.8 * p, 1.5 * p] (in tenths: [8 * p, 15 * p]).
C17_AllDrawsStoredAndClamped ==
    PricePositive =>
        /\ mpc # "failed"
        /\ Len(simulations) <= n_sims
        /\ mpc = "done" => Len(simulations) = n_sims
        /\ \A i \in DOMAIN simulations :
             /\ simulations[i] >= 8 * market_data.price.v
             /\ simulations[i] <= 15 * market_data.price.v

\* C18: the three probabilities returned, rounded to 4 decimals, are each in
\* [0, 1] and sum to 1 (a deviation of one unit of 0.0001 is more than 1e-6).
C18_ProbabilitiesSumToOne ==
    mpc = "done" =>
        /\ mresult.undervalued \in 0..10000
        /\ mresult.overvalued \in 0..10000
        /\ mresult.fair_valued \in 0..10000
        /\ mresult.undervalued + mresult.overvalued + mresult.fair_valued = 10000

\* C19: with a price that is zero, negative, None or missing, run_simulation
\* fails before any draw - with ValueError, or with TypeError when the price is
\* None - and returns no result.
C19_NonPositivePriceRejected ==
    (mpc # "idle" /\ ~PricePositive) =>
        /\ mpc = "failed"
        /\ merr = (IF market_data.price.t = "none" THEN "TypeError" ELSE "ValueError")
        /\ simulations = <<>>
        /\ ~pe_lookup.called
        /\ mresult = NoResult

C19_Witness ==
    mpc = "failed" /\ market_data.price = Num(0) /\ merr = "ValueError"

\* C20: for every market-data record the PE lookup returns, and returns the
\* record's own pe_ratio when it lies in (0, 50] and 15 otherwise.
C20_ReferencePe ==
    pe_lookup.called =>
        /\ pe_lookup.exc = "NoException"
        /\ pe_lookup.v = (IF /\ market_data.pe_ratio.t = "num"
                             /\ market_data.pe_ratio.v > 0
                             /\ market_data.pe_ratio.v <= 50
                          THEN market_data.pe_ratio.v
                          ELSE 15)

\* C21: whenever run_simulation returns, the valuation range is ordered,
\* low <= medium <= high, and each of the three lies within 0.8 and 1.5 times
\* the current price.
C21_RangeOrderedAndBounded ==
    mpc = "done" =>
        /\ mresult.low <= mresult.medium
        /\ mresult.medium <= mresult.high
        /\ 32 * market_data.price.v <= mresult.low
        /\ mresult.high <= 60 * market_data.price.v

\* C21 witness: a run of three draws returned three different quartiles, the
\* lowest draw on the lower clamp and the highest on the upper one
C21_Witness ==
    /\ mpc = "done"
    /\ n_sims = 3
    /\ mresult.low < mresult.medium
    /\ mresult.medium < mresult.high
    /\ \E i \in DOMAIN simulations : simulations[i] = 8 * market_data.price.v
    /\ \E i \in DOMAIN simulations : simulations[i] = 15 * market_data.price.v

\* C27: every price of the returned valuation range is a whole number of
\* hundredths (an even number of fortieths) and every probability a whole
\* number of ten-thousandths.
C27_ResultRounded ==
    mpc = "done" =>
        /\ mresult.low % 2 = 0
        /\ mresult.medium % 2 = 0
        /\ mresult.high % 2 = 0
        /\ mresult.undervalued \in Int
        /\ mresult.overvalued \in Int
        /\ mresult.fair_valued \in Int

\* C22: the forecast has exactly four entries, every entry lies within 0.8
\* and 1.2 times the current price, and the walk uses a drift within
\* [-0.10, 0.10] and a volatility within [0.05, 0.20].
C22_FourQuartersWithinFifth ==
    /\ qpc = "done" => Len(predictions) = quarters
    /\ qpc \in {"walking", "done"} =>
           /\ drift \in -1..1
           /\ sigma \in 1..4
           /\ \A i \in DOMAIN predictions :
                  /\ 8 * start_price <= 10 * predictions[i]
                  /\ 10 * predictions[i] <= 12 * start_price

\* the call has ended, with a value or with an exception
DcfOver == dpc \in {"done", "failed"}

\* the valuation was built: float() accepted the free cash flow
Accepted == financials.free_cash_flow.t = "num"

\* calculate is strictly increasing in growth and strictly decreasing in
\* discount around the call that was made
Monotone ==
    /\ \A g \in Growths :
           g > growth_rate =>
               frac_less(present_value,
                         calculate(free_cash_flow, high_growth_years, g,
                                   discount_rate, terminal_growth))
    /\ \A d \in Discounts :
           d > discount_rate =>
               frac_less(calculate(free_cash_flow, high_growth_years, growth_rate,
                                   d, terminal_growth),
                         present_value)

C24_LinearInCashFlow ==
    (dpc = "done" /\ discount_rate > terminal_growth) =>
        LET twice == calculate(2 * free_cash_flow, high_growth_years, growth_rate,
                               discount_rate, terminal_growth)
        IN /\ twice.num * present_value.den = 2 * present_value.num * twice.den
           /\ free_cash_flow > 0 => present_value.num > 0

\* C24 witness: a positive free cash flow was valued with a growing high-growth
\* phase of two years
C24_Witness ==
    /\ dpc = "done"
    /\ discount_rate > terminal_growth
    /\ free_cash_flow = 1
    /\ growth_rate > 0
    /\ high_growth_years = 2
    /\ present_value.num > 0

\* C25: with discount_rate <= terminal_growth calculate does not return a
\* value, it fails.
C25_NoValueAtOrBelowTerminalGrowth ==
    (DcfOver /\ Accepted /\ discount_rate <= terminal_growth) => dpc = "failed"

\* C28: the list holds the high-growth years and then three transition
\* years, and each transition year's cash flow is the cash flow of the year
\* before it, for the first the last high-growth year, times one plus the
\* stepped rate of the year, the rate falling by the same decrement each year;
\* the terminal value is computed from the last transition year's cash flow.
C28_CashFlowsCompound ==
    dpc \in {"projected", "done"} =>
        /\ Len(high_growth) = high_growth_years + transition_years
        /\ \A k \in 1..transition_years :
               4 * high_growth[high_growth_years + k] =
                   high_growth[high_growth_years + k - 1]
                       * transition_factor(growth_rate, terminal_growth, k)
        /\ dpc = "done" =>
               terminal_value =
                   perpetuity(high_growth[Len(high_growth)], discount_rate,
                              terminal_growth)

\* C26: every record fetch_market_data returned or cached has a numeric price
\* above zero.
C26_ValidatedPricePositive ==
    /\ bpc = "returned" =>
           /\ bresult.price.t = "num"
           /\ bresult.price.v > 0
    /\ \A key \in CacheKeys :
           cache[key] # NoEntry =>
               /\ cache[key].data.price.t = "num"
               /\ cache[key].data.price.v > 0

\* C29: a source that is unhealthy stays unhealthy through every step of a
\* get_market_data or get_financials call, and no step of such a call invokes
\* a fetch on it.
C29_UnhealthyAbsorbing ==
    [][\A s \in Sources :
           ~is_healthy(health[s]) =>
               /\ ~is_healthy(health'[s])
               /\ Len(contacted') > Len(contacted) =>
                      contacted'[Len(contacted')].source # s]_vars

====
